---- MODULE Spec2Model ----
(***************************************************************************)
(* A model of the REST-to-SQL gateway (handleRest and its four handlers)   *)
(* and of the value coercers (the write-direction coercion inlined in      *)
(* handlePost / handleUpdate, and hydrateValue / hydrateRow).              *)
(*                                                                         *)
(* Text is modelled character by character: a JS string is a sequence of   *)
(* one-character strings.  A JS value is a tagged record (see JNull ...).  *)
(* A JS object is a sequence of [k, v] pairs, so key order is kept.        *)
(***************************************************************************)
EXTENDS Integers, Sequences, FiniteSets, TLC

VARIABLES
    db,       \* the storage engine's tables: table name -> sequence of rows
    req,      \* the request being answered
    stmts,    \* the statements the handler sent to storage for req, in order
    resp,     \* the response the handler returned for req
    pc,       \* "idle": waiting for a request; "done": req has been answered
    cv,       \* coercer round trip: the wire value
    cstored,  \* coercer round trip: the value after the write-direction coercion
    cout,     \* coercer round trip: the value after hydration
    cstage    \* coercer round trip: "wire", "stored" or "hydrated"

vars == <<db, req, stmts, resp, pc, cv, cstored, cout, cstage>>
restVars == <<db, req, stmts, resp, pc>>
coerceVars == <<cv, cstored, cout, cstage>>

-----------------------------------------------------------------------------
(* Bounds of the model *)

\* largest JSON number drawn as an input
MaxNum == 2
\* longest JSON array drawn as an input
MaxArrLen == 2
\* most entries of a request's query string
MaxQuery == 2
\* most rows one table holds
MaxRows == 1

-----------------------------------------------------------------------------
(* Characters and strings *)

LowerChars == {"a","b","c","d","e","f","g","h","i","j","k","l","m",
               "n","o","p","q","r","s","t","u","v","w","x","y","z"}
UpperChars == {"A","B","C","D","E","F","G","H","I","J","K","L","M",
               "N","O","P","Q","R","S","T","U","V","W","X","Y","Z"}
DigitChars == {"0","1","2","3","4","5","6","7","8","9"}

\* the character class [a-zA-Z0-9_] of sanitizeIdentifier's regular expression
SafeChars == LowerChars \cup UpperChars \cup DigitChars \cup {"_"}

DigitVal(c) ==
    CASE c = "0" -> 0 [] c = "1" -> 1 [] c = "2" -> 2 [] c = "3" -> 3
      [] c = "4" -> 4 [] c = "5" -> 5 [] c = "6" -> 6 [] c = "7" -> 7
      [] c = "8" -> 8 [] c = "9" -> 9

DigitChar(d) ==
    CASE d = 0 -> "0" [] d = 1 -> "1" [] d = 2 -> "2" [] d = 3 -> "3"
      [] d = 4 -> "4" [] d = 5 -> "5" [] d = 6 -> "6" [] d = 7 -> "7"
      [] d = 8 -> "8" [] d = 9 -> "9"

\* String.prototype.toUpperCase, one character
UpperOf(c) ==
    CASE c = "a" -> "A" [] c = "b" -> "B" [] c = "c" -> "C" [] c = "d" -> "D"
      [] c = "e" -> "E" [] c = "f" -> "F" [] c = "g" -> "G" [] c = "h" -> "H"
      [] c = "i" -> "I" [] c = "j" -> "J" [] c = "k" -> "K" [] c = "l" -> "L"
      [] c = "m" -> "M" [] c = "n" -> "N" [] c = "o" -> "O" [] c = "p" -> "P"
      [] c = "q" -> "Q" [] c = "r" -> "R" [] c = "s" -> "S" [] c = "t" -> "T"
      [] c = "u" -> "U" [] c = "v" -> "V" [] c = "w" -> "W" [] c = "x" -> "X"
      [] c = "y" -> "Y" [] c = "z" -> "Z" [] OTHER -> c

toUpperCase(s) == [i \in 1..Len(s) |-> UpperOf(s[i])]

\* non-negative integer -> its decimal digits
RECURSIVE NatToStr(_)
NatToStr(n) == IF n < 10 THEN <<DigitChar(n)>>
               ELSE NatToStr(n \div 10) \o <<DigitChar(n % 10)>>

\* Number -> string, as JSON.stringify prints an integer
IntToStr(n) == IF n < 0 THEN <<"-">> \o NatToStr(-n) ELSE NatToStr(n)

-----------------------------------------------------------------------------
(* JS values *)

JUndef    == [t |-> "undef"]
JNull     == [t |-> "null"]
JBool(b)  == [t |-> "bool", b |-> b]
JNum(n)   == [t |-> "num", n |-> n]
JNaN      == [t |-> "nan"]
JStr(s)   == [t |-> "str", s |-> s]
JArr(a)   == [t |-> "arr", a |-> a]
JObj(o)   == [t |-> "obj", o |-> o]
Pair(k, v) == [k |-> k, v |-> v]

\* typeof value === "object" && value !== null
IsObjectLike(v) == v.t \in {"arr", "obj"}

-----------------------------------------------------------------------------
(* JSON.stringify and JSON.parse *)

\* a string's characters between the quotes: " and \ are escaped
RECURSIVE EscapeChars(_)
EscapeChars(s) ==
    IF s = <<>> THEN <<>>
    ELSE (IF Head(s) \in {"\"", "\\"} THEN <<"\\", Head(s)>> ELSE <<Head(s)>>)
         \o EscapeChars(Tail(s))

Quote(s) == <<"\"">> \o EscapeChars(s) \o <<"\"">>

RECURSIVE Stringify(_), StringifyElems(_), StringifyMembers(_)
Stringify(v) ==
    CASE v.t = "null" -> <<"n","u","l","l">>
      [] v.t = "bool" -> IF v.b THEN <<"t","r","u","e">> ELSE <<"f","a","l","s","e">>
      [] v.t = "num"  -> IntToStr(v.n)
      [] v.t = "str"  -> Quote(v.s)
      [] v.t = "arr"  -> <<"[">> \o StringifyElems(v.a) \o <<"]">>
      [] v.t = "obj"  -> <<"{">> \o StringifyMembers(v.o) \o <<"}">>

StringifyElems(a) ==
    IF a = <<>> THEN <<>>
    ELSE Stringify(Head(a))
         \o (IF Tail(a) = <<>> THEN <<>> ELSE <<",">> \o StringifyElems(Tail(a)))

StringifyMembers(o) ==
    IF o = <<>> THEN <<>>
    ELSE Quote(Head(o).k) \o <<":">> \o Stringify(Head(o).v)
         \o (IF Tail(o) = <<>> THEN <<>> ELSE <<",">> \o StringifyMembers(Tail(o)))

\* a parser's answer: the value and the position after it, or a failure
POk(v, i) == [ok |-> TRUE, v |-> v, i |-> i]
PFail     == [ok |-> FALSE, v |-> JNull, i |-> 0]

RECURSIVE SkipWs(_, _)
SkipWs(s, i) == IF i <= Len(s) /\ s[i] = " " THEN SkipWs(s, i + 1) ELSE i

\* does the literal lit stand at position i of s
Match(s, i, lit) ==
    /\ i + Len(lit) - 1 <= Len(s)
    /\ \A j \in 1..Len(lit) : s[i + j - 1] = lit[j]

\* the characters of a string literal whose opening quote is before i
RECURSIVE ParseChars(_, _, _)
ParseChars(s, i, acc) ==
    IF i > Len(s) THEN PFail
    ELSE IF s[i] = "\"" THEN POk(JStr(acc), i + 1)
    ELSE IF s[i] = "\\"
         THEN IF i + 1 <= Len(s) /\ s[i + 1] \in {"\"", "\\"}
              THEN ParseChars(s, i + 2, Append(acc, s[i + 1]))
              ELSE PFail
    ELSE ParseChars(s, i + 1, Append(acc, s[i]))

\* the digits from position i on: [n, i] with i the position after them
RECURSIVE ParseDigits(_, _, _)
ParseDigits(s, i, n) ==
    IF i <= Len(s) /\ s[i] \in DigitChars
    THEN ParseDigits(s, i + 1, 10 * n + DigitVal(s[i]))
    ELSE [n |-> n, i |-> i]

\* a JSON integer: -? (0 | [1-9][0-9]*)
ParseNumber(s, i) ==
    LET neg == i <= Len(s) /\ s[i] = "-"
        j   == IF neg THEN i + 1 ELSE i
        d   == ParseDigits(s, j, 0)
    IN  IF d.i = j THEN PFail
        ELSE IF s[j] = "0" /\ d.i > j + 1 THEN PFail
        ELSE POk(JNum(IF neg THEN -d.n ELSE d.n), d.i)

\* JSON.parse keeps one entry per key: a repeated key keeps its first place
\* and takes the last value
ObjPut(o, k, v) ==
    IF \E i \in 1..Len(o) : o[i].k = k
    THEN [i \in 1..Len(o) |-> IF o[i].k = k THEN Pair(k, v) ELSE o[i]]
    ELSE Append(o, Pair(k, v))

RECURSIVE ParseValue(_, _), ParseElems(_, _, _), ParseMembers(_, _, _)
ParseValue(s, i0) ==
    LET i == SkipWs(s, i0) IN
    IF i > Len(s) THEN PFail
    ELSE IF s[i] = "{" THEN
        (LET j == SkipWs(s, i + 1) IN
         IF j <= Len(s) /\ s[j] = "}" THEN POk(JObj(<<>>), j + 1)
         ELSE ParseMembers(s, j, <<>>))
    ELSE IF s[i] = "[" THEN
        (LET j == SkipWs(s, i + 1) IN
         IF j <= Len(s) /\ s[j] = "]" THEN POk(JArr(<<>>), j + 1)
         ELSE ParseElems(s, j, <<>>))
    ELSE IF s[i] = "\"" THEN ParseChars(s, i + 1, <<>>)
    ELSE IF Match(s, i, <<"t","r","u","e">>) THEN POk(JBool(TRUE), i + 4)
    ELSE IF Match(s, i, <<"f","a","l","s","e">>) THEN POk(JBool(FALSE), i + 5)
    ELSE IF Match(s, i, <<"n","u","l","l">>) THEN POk(JNull, i + 4)
    ELSE ParseNumber(s, i)

\* the elements of an array from position i on, up to the closing bracket
ParseElems(s, i, acc) ==
    LET e == ParseValue(s, i) IN
    IF ~e.ok THEN PFail
    ELSE LET j == SkipWs(s, e.i) IN
         IF j > Len(s) THEN PFail
         ELSE IF s[j] = "]" THEN POk(JArr(Append(acc, e.v)), j + 1)
         ELSE IF s[j] = "," THEN ParseElems(s, j + 1, Append(acc, e.v))
         ELSE PFail

\* the members of an object from position i on, up to the closing brace
ParseMembers(s, i0, acc) ==
    LET i == SkipWs(s, i0) IN
    IF i > Len(s) \/ s[i] # "\"" THEN PFail
    ELSE LET k == ParseChars(s, i + 1, <<>>) IN
         IF ~k.ok THEN PFail
         ELSE LET c == SkipWs(s, k.i) IN
              IF c > Len(s) \/ s[c] # ":" THEN PFail
              ELSE LET e == ParseValue(s, c + 1) IN
                   IF ~e.ok THEN PFail
                   ELSE LET j == SkipWs(s, e.i) IN
                        IF j > Len(s) THEN PFail
                        ELSE IF s[j] = "}"
                             THEN POk(JObj(ObjPut(acc, k.v.s, e.v)), j + 1)
                        ELSE IF s[j] = ","
                             THEN ParseMembers(s, j + 1, ObjPut(acc, k.v.s, e.v))
                        ELSE PFail

\* JSON.parse(text): ok = FALSE stands for the SyntaxError it throws
JsonParse(s) ==
    LET p == ParseValue(s, 1) IN
    IF p.ok /\ SkipWs(s, p.i) = Len(s) + 1 THEN p ELSE PFail

-----------------------------------------------------------------------------
(* Value coercers *)

\* handlePost's params callback: the write-direction coercion of one value
toStoragePost(value) ==
    IF IsObjectLike(value) THEN JStr(Stringify(value))
    ELSE IF value.t = "bool" THEN JNum(IF value.b THEN 1 ELSE 0)
    ELSE IF value.t \in {"undef", "null"} THEN JNull
    ELSE value

\* handleUpdate's params callback: as handlePost's, without the null branch
toStorageUpdate(value) ==
    IF IsObjectLike(value) THEN JStr(Stringify(value))
    ELSE IF value.t = "bool" THEN JNum(IF value.b THEN 1 ELSE 0)
    ELSE value

\* hydrateValue with the array branch of the first-character test lost
hydrateValue_ObjectsOnly(value) ==
    IF value.t \in {"null", "undef"} THEN value
    ELSE IF value.t = "num" /\ value.n = 0 THEN JBool(FALSE)
    ELSE IF value.t = "num" /\ value.n = 1 THEN JBool(TRUE)
    ELSE IF value.t = "str" /\ Len(value.s) > 0 /\ value.s[1] = "{"
         THEN (LET p == JsonParse(value.s) IN IF p.ok THEN p.v ELSE value)
    ELSE value

\* hydrateValue: the read-direction coercion of one stored value
hydrateValue(value) ==
    IF value.t \in {"null", "undef"} THEN value
    ELSE IF value.t = "num" /\ value.n = 0 THEN JBool(FALSE)
    ELSE IF value.t = "num" /\ value.n = 1 THEN JBool(TRUE)
    ELSE IF value.t = "str" /\ Len(value.s) > 0 /\ value.s[1] \in {"{", "["}
         THEN (LET p == JsonParse(value.s) IN IF p.ok THEN p.v ELSE value)
    ELSE value

\* hydrateRow: every column of a row hydrated, the columns' order kept
hydrateRow(row) == [i \in 1..Len(row) |-> Pair(row[i].k, hydrateValue(row[i].v))]

-----------------------------------------------------------------------------
(* Names the code spells out *)

S_id      == <<"i","d">>
S_slug    == <<"s","l","u","g">>
S_quizzes == <<"q","u","i","z","z","e","s">>
S_sort_by == <<"s","o","r","t","_","b","y">>
S_order   == <<"o","r","d","e","r">>
S_limit   == <<"l","i","m","i","t">>
S_page    == <<"p","a","g","e">>
S_DESC    == <<"D","E","S","C">>

\* the keys handleGet's loop skips
ReservedKeys == {S_sort_by, S_order, S_limit, S_page}

-----------------------------------------------------------------------------
(* Statement text: the literal parts of the code's template strings, and    *)
(* the identifiers interpolated into them                                   *)

Lit(x)    == [kind |-> "lit", s |-> <<x>>]
Ident(cs) == [kind |-> "ident", s |-> cs]

\* sanitizeIdentifier with "-" added to the character class
sanitizeIdentifier_KeepsDash(identifier) ==
    SelectSeq(identifier, LAMBDA c : c \in SafeChars \cup {"-"})

\* identifier.replace(/[^a-zA-Z0-9_]/g, "")
sanitizeIdentifier(identifier) ==
    SelectSeq(identifier, LAMBDA c : c \in SafeChars)

\* the identifier-quoting delimiter U+0060, which a TLA+ string cannot hold
BackQuote == Lit("<U+0060>")

\* BackQuote + sanitizeIdentifier(identifier) + BackQuote
sanitizeKeyword(identifier) ==
    <<BackQuote, Ident(sanitizeIdentifier(identifier)), BackQuote>>

\* tableName === "quizzes" ? "slug" : "id"
idColumnOf(tableName) == IF tableName = S_quizzes THEN S_slug ELSE S_id

\* pieces.join(sep), each piece a sequence of text parts
RECURSIVE Join(_, _)
Join(pieces, sep) ==
    IF pieces = <<>> THEN <<>>
    ELSE IF Len(pieces) = 1 THEN pieces[1]
    ELSE pieces[1] \o <<Lit(sep)>> \o Join(Tail(pieces), sep)

\* the template "${column} = ?"
EqualsParam(column) == <<Ident(column), Lit(" = ?")>>

\* the number of "?" placeholders of a statement text
RECURSIVE Placeholders(_)
Placeholders(text) ==
    IF text = <<>> THEN 0
    ELSE (LET p == Head(text) IN
          IF p.kind = "ident" THEN Len(SelectSeq(p.s, LAMBDA c : c = "?"))
          ELSE IF p.s[1] \in {" = ?", "?"} THEN 1
          ELSE IF p.s[1] = " LIMIT ? OFFSET ?" THEN 2
          ELSE 0)
         + Placeholders(Tail(text))

-----------------------------------------------------------------------------
(* JS numbers and the query string *)

IsNum(x) == x.t = "num"

\* parseInt(s), radix 10: leading blanks, a sign, then digits; NaN without
\* a digit.  (No input of the model starts with "0x".)
parseInt(s) ==
    LET i   == SkipWs(s, 1)
        sgn == i <= Len(s) /\ s[i] \in {"-", "+"}
        j   == IF sgn THEN i + 1 ELSE i
        d   == ParseDigits(s, j, 0)
    IN  IF d.i = j THEN JNaN
        ELSE JNum(IF sgn /\ s[i] = "-" THEN -d.n ELSE d.n)

\* Math.max(1, x): NaN when x is NaN
MathMax1(x) == IF IsNum(x) THEN JNum(IF x.n > 1 THEN x.n ELSE 1) ELSE JNaN

\* (page - 1) * limit
OffsetOf(page, limit) ==
    IF IsNum(page) /\ IsNum(limit) THEN JNum((page.n - 1) * limit.n) ELSE JNaN

\* limit > 0: false for NaN
GtZero(x) == IsNum(x) /\ x.n > 0

\* Math.ceil(total / limit), for limit > 0
CeilDiv(total, limit) == (total + limit - 1) \div limit

\* JS truthiness
Truthy(v) ==
    CASE v.t \in {"undef", "null", "nan"} -> FALSE
      [] v.t = "bool" -> v.b
      [] v.t = "num"  -> v.n # 0
      [] v.t = "str"  -> v.s # <<>>
      [] OTHER -> TRUE

\* searchParams.get(key): the first entry's value, null without one
HasParam(query, key) == \E i \in 1..Len(query) : query[i].k = key
GetParam(query, key) ==
    query[CHOOSE i \in 1..Len(query) :
            query[i].k = key /\ \A j \in 1..(i - 1) : query[j].k # key].v

\* searchParams.get(key) || dflt
GetParamOr(query, key, dflt) ==
    IF HasParam(query, key) /\ GetParam(query, key) # <<>>
    THEN GetParam(query, key) ELSE dflt

\* data[col]: undefined without such a key
HasKey(data, col) == \E i \in 1..Len(data) : data[i].k = col
GetKey(data, col) ==
    IF HasKey(data, col)
    THEN data[CHOOSE i \in 1..Len(data) : data[i].k = col].v
    ELSE JUndef

-----------------------------------------------------------------------------
(* The storage engine behind c.env.DB (SQLite): two tables,                 *)
(*   items(id TEXT PRIMARY KEY, a)   and   quizzes(slug TEXT PRIMARY KEY, a) *)
(* A row is the sequence of its [k, v] columns in schema order.  A stored   *)
(* value is null, a number or text.                                         *)

S_items == <<"i","t","e","m","s">>
S_a     == <<"a">>

Tables == {S_items, S_quizzes}
KeyColumn(tbl) == IF tbl = S_quizzes THEN S_slug ELSE S_id
Columns(tbl) == <<KeyColumn(tbl), S_a>>
IsColumn(tbl, col) == \E i \in 1..Len(Columns(tbl)) : Columns(tbl)[i] = col

TotalRows(d) == Len(d[S_items]) + Len(d[S_quizzes])

\* the printable ASCII characters in code order (U+0060 left out)
AsciiOrder ==
    <<" ","!","\"","#","$","%","&","'","(",")","*","+",",","-",".","/",
      "0","1","2","3","4","5","6","7","8","9",":",";","<","=",">","?","@",
      "A","B","C","D","E","F","G","H","I","J","K","L","M","N","O","P","Q",
      "R","S","T","U","V","W","X","Y","Z","[","\\","]","^","_",
      "a","b","c","d","e","f","g","h","i","j","k","l","m","n","o","p","q",
      "r","s","t","u","v","w","x","y","z","{","|","}","~">>
CharCode(c) == CHOOSE i \in 1..Len(AsciiOrder) : AsciiOrder[i] = c

\* text order: byte by byte, a prefix first
RECURSIVE TextLess(_, _)
TextLess(x, y) ==
    IF y = <<>> THEN FALSE
    ELSE IF x = <<>> THEN TRUE
    ELSE IF Head(x) = Head(y) THEN TextLess(Tail(x), Tail(y))
    ELSE CharCode(Head(x)) < CharCode(Head(y))

\* SQLite's order of stored values: NULL, then numbers, then text
TypeRank(v) == CASE v.t = "null" -> 0 [] v.t = "num" -> 1 [] OTHER -> 2
SqlLess(x, y) ==
    \/ TypeRank(x) < TypeRank(y)
    \/ /\ x.t = "num" /\ y.t = "num" /\ x.n < y.n
    \/ /\ x.t = "str" /\ y.t = "str" /\ TextLess(x.s, y.s)

\* column = ? : never true of NULL; a number and a text are never equal
SqlEq(x, y) == x.t # "null" /\ y.t # "null" /\ x.t = y.t /\ x = y

\* what a column keeps of a bound value: the TEXT key column turns a number
\* into its digits, column a keeps the value as bound
Affinity(tbl, col, v) ==
    IF col = KeyColumn(tbl) /\ v.t = "num" THEN JStr(IntToStr(v.n)) ELSE v

Matches(row, cols, vals) ==
    \A i \in 1..Len(cols) : SqlEq(GetKey(row, cols[i]), vals[i])

\* ORDER BY col ASC|DESC; rows that compare equal keep their stored order
RECURSIVE InsertSorted(_, _, _, _)
InsertSorted(sorted, row, col, desc) ==
    IF sorted = <<>> THEN <<row>>
    ELSE LET h == Head(sorted)
             rowFirst == IF desc THEN SqlLess(GetKey(h, col), GetKey(row, col))
                         ELSE SqlLess(GetKey(row, col), GetKey(h, col))
         IN  IF rowFirst THEN <<row>> \o sorted
             ELSE <<h>> \o InsertSorted(Tail(sorted), row, col, desc)

RECURSIVE SortRows(_, _, _)
SortRows(rows, col, desc) ==
    IF rows = <<>> THEN <<>>
    ELSE InsertSorted(SortRows(SubSeq(rows, 1, Len(rows) - 1), col, desc),
                      rows[Len(rows)], col, desc)

\* LIMIT limit OFFSET offset, both non-negative
PageOf(rows, limit, offset) ==
    SubSeq(rows, offset + 1,
           IF offset + limit < Len(rows) THEN offset + limit ELSE Len(rows))

\* an engine answer
DbErr(msg) == [err |-> msg, rows |-> <<>>, changes |-> 0, last_row_id |-> 0]
DbOk(rows, changes, rowid) ==
    [err |-> "", rows |-> rows, changes |-> changes, last_row_id |-> rowid]

\* what is wrong with a statement before it runs, "" when nothing is:
\* bind() refuses undefined; an empty identifier or column list does not
\* parse; the table and the columns must exist
PrepareError(tbl, cols, params, needsCols) ==
    IF \E i \in 1..Len(params) : params[i].t = "undef"
        THEN "D1_TYPE_ERROR: Type 'undefined' not supported"
    ELSE IF tbl = <<>> \/ (needsCols /\ cols = <<>>)
            \/ \E i \in 1..Len(cols) : cols[i] = <<>>
        THEN "syntax error"
    ELSE IF tbl \notin Tables THEN "no such table"
    ELSE IF \E i \in 1..Len(cols) : ~IsColumn(tbl, cols[i]) THEN "no such column"
    ELSE ""

\* SELECT * FROM tbl [WHERE c = ? AND ...] ORDER BY orderCol dir [LIMIT ? OFFSET ?]
\* params: the WHERE values, then limit and offset when paged
DbSelect(d, tbl, whereCols, orderCol, desc, paged, params) ==
    LET e == PrepareError(tbl, whereCols \o <<orderCol>>, params, FALSE) IN
    IF e # "" THEN DbErr(e)
    ELSE IF paged /\ (~IsNum(params[Len(params) - 1]) \/ ~IsNum(params[Len(params)]))
        THEN DbErr("datatype mismatch")
    ELSE LET found  == SelectSeq(d[tbl], LAMBDA r : Matches(r, whereCols, params))
             sorted == SortRows(found, orderCol, desc)
         IN  DbOk(IF paged
                  THEN PageOf(sorted, params[Len(params) - 1].n, params[Len(params)].n)
                  ELSE sorted, 0, 0)

\* SELECT COUNT(*) as total FROM tbl [WHERE c = ? AND ...]: one row, total
DbCount(d, tbl, whereCols, params) ==
    LET e == PrepareError(tbl, whereCols, params, FALSE) IN
    IF e # "" THEN DbErr(e)
    ELSE IF Len(params) # Len(whereCols) THEN DbErr("column index out of range")
    ELSE DbOk(<<Len(SelectSeq(d[tbl], LAMBDA r : Matches(r, whereCols, params)))>>,
              0, 0)

\* the value an INSERT gives a column: that of the column's first place in
\* the column list, NULL when the list does not name it
InsertedValue(tbl, col, cols, params) ==
    IF \E i \in 1..Len(cols) : cols[i] = col
    THEN Affinity(tbl, col,
             params[CHOOSE i \in 1..Len(cols) :
                      cols[i] = col /\ \A j \in 1..(i - 1) : cols[j] # col])
    ELSE JNull

KeyTaken(rows, tbl, key) ==
    key.t # "null" /\ \E i \in 1..Len(rows) : GetKey(rows[i], KeyColumn(tbl)) = key

\* INSERT INTO tbl (cols) VALUES (?, ...): [res, db].  last_row_id is the new
\* row's place in the table (SQLite: the largest rowid plus one)
DbInsert(d, tbl, cols, params) ==
    LET e == PrepareError(tbl, cols, params, TRUE) IN
    IF e # "" THEN [res |-> DbErr(e), db |-> d]
    ELSE LET row == [i \in 1..Len(Columns(tbl)) |->
                        Pair(Columns(tbl)[i],
                             InsertedValue(tbl, Columns(tbl)[i], cols, params))]
         IN  IF KeyTaken(d[tbl], tbl, GetKey(row, KeyColumn(tbl)))
             THEN [res |-> DbErr("UNIQUE constraint failed"), db |-> d]
             ELSE [res |-> DbOk(<<>>, 1, Len(d[tbl]) + 1),
                   db  |-> [d EXCEPT ![tbl] = Append(@, row)]]

\* the value an UPDATE gives a column: that of the column's last place in
\* the SET list, the old value when the list does not name it
UpdatedValue(tbl, col, old, cols, params) ==
    IF \E i \in 1..Len(cols) : cols[i] = col
    THEN Affinity(tbl, col,
             params[CHOOSE i \in 1..Len(cols) :
                      cols[i] = col /\ \A j \in (i + 1)..Len(cols) : cols[j] # col])
    ELSE old

\* UPDATE tbl SET c = ?, ... WHERE idCol = ?: [res, db]; params: the SET
\* values, then the id
DbUpdate(d, tbl, cols, idCol, params) ==
    LET e == PrepareError(tbl, cols \o <<idCol>>, params, TRUE) IN
    IF e # "" THEN [res |-> DbErr(e), db |-> d]
    ELSE LET id   == params[Len(params)]
             hit(r) == SqlEq(GetKey(r, idCol), id)
             rows == [i \in 1..Len(d[tbl]) |->
                        IF hit(d[tbl][i])
                        THEN [c \in 1..Len(Columns(tbl)) |->
                                Pair(Columns(tbl)[c],
                                     UpdatedValue(tbl, Columns(tbl)[c],
                                                  d[tbl][i][c].v, cols, params))]
                        ELSE d[tbl][i]]
             keys(i) == GetKey(rows[i], KeyColumn(tbl))
         IN  IF \E i, j \in 1..Len(rows) :
                    i < j /\ keys(i).t # "null" /\ keys(i) = keys(j)
             THEN [res |-> DbErr("UNIQUE constraint failed"), db |-> d]
             ELSE [res |-> DbOk(<<>>, Len(SelectSeq(d[tbl], hit)), 0),
                   db  |-> [d EXCEPT ![tbl] = rows]]

\* DELETE FROM tbl WHERE idCol = ?: [res, db]
DbDelete(d, tbl, idCol, params) ==
    LET e == PrepareError(tbl, <<idCol>>, params, FALSE) IN
    IF e # "" THEN [res |-> DbErr(e), db |-> d]
    ELSE LET hit(r) == SqlEq(GetKey(r, idCol), params[1])
             keep(r) == ~hit(r)
         IN  [res |-> DbOk(<<>>, Len(SelectSeq(d[tbl], hit)), 0),
              db  |-> [d EXCEPT ![tbl] = SelectSeq(@, keep)]]

\* error.message.includes("UNIQUE constraint failed")
IsUniqueError(msg) == msg = "UNIQUE constraint failed"

-----------------------------------------------------------------------------
(* The handlers.  Each gives [stmts, resp, db]: the statements it sent to    *)
(* storage, the response it returned, and the tables afterwards.             *)

Stmt(text, params) == [text |-> text, params |-> params]
Json(body, status) == [status |-> status, body |-> body]
Result(ss, r, d) == [stmts |-> ss, resp |-> r, db |-> d]

\* the table a statement text names: the identifier between the delimiters
TableOf(table) == table[2].s

\* const countParams = limit > 0 ? params.slice(0, -2) : params, with the
\* slice taken whatever the limit
countParamsOf_AlwaysSliced(limit, params) ==
    SubSeq(params, 1, Len(params) - 2)

\* const countParams = limit > 0 ? params.slice(0, -2) : params
countParamsOf(limit, params) ==
    IF GtZero(limit) THEN SubSeq(params, 1, Len(params) - 2) ELSE params

\* the body is not a plain object: !data || typeof data !== "object" ||
\* Array.isArray(data)
InvalidData(data) ==
    \/ ~Truthy(data)
    \/ data.t \notin {"null", "arr", "obj"}
    \/ data.t = "arr"

handleGet(d, tableName, id, searchParams) ==
    LET table    == sanitizeKeyword(tableName)
        idColumn == idColumnOf(tableName)
        hasId    == Truthy(id)
        filters  == SelectSeq(searchParams, LAMBDA e : e.k \notin ReservedKeys)
        condCols == (IF hasId THEN <<idColumn>> ELSE <<>>)
                    \o [i \in 1..Len(filters) |-> sanitizeIdentifier(filters[i].k)]
        params0  == (IF hasId THEN <<id>> ELSE <<>>)
                    \o [i \in 1..Len(filters) |-> JStr(filters[i].v)]
        conditions  == [i \in 1..Len(condCols) |-> EqualsParam(condCols[i])]
        whereClause == IF Len(conditions) > 0
                       THEN <<Lit(" WHERE ")>> \o Join(conditions, " AND ")
                       ELSE <<>>
        limit  == parseInt(GetParamOr(searchParams, S_limit, <<"0">>))
        page   == MathMax1(parseInt(GetParamOr(searchParams, S_page, <<"1">>)))
        offset == OffsetOf(page, limit)
        sortBy == GetParamOr(searchParams, S_sort_by, idColumn)
        desc   == /\ HasParam(searchParams, S_order)
                  /\ toUpperCase(GetParam(searchParams, S_order)) = S_DESC
        sortCol == sanitizeIdentifier(sortBy)
        query  == <<Lit("SELECT * FROM ")>> \o table \o whereClause
                  \o <<Lit(" ORDER BY "), Ident(sortCol), Lit(" "),
                       Lit(IF desc THEN "DESC" ELSE "ASC")>>
                  \o (IF GtZero(limit) THEN <<Lit(" LIMIT ? OFFSET ?")>> ELSE <<>>)
        params == params0 \o (IF GtZero(limit) THEN <<limit, offset>> ELSE <<>>)
        all    == DbSelect(d, TableOf(table), condCols, sortCol, desc,
                           GtZero(limit), params)
        countQuery  == <<Lit("SELECT COUNT(*) as total FROM ")>> \o table
                       \o whereClause
        countParams == countParamsOf(limit, params)
        first  == DbCount(d, TableOf(table), condCols, countParams)
        total  == first.rows[1]
    IN  IF all.err # ""
        THEN Result(<<Stmt(query, params)>>,
                    Json([success |-> FALSE, error |-> all.err], 500), d)
        ELSE IF hasId
        THEN Result(<<Stmt(query, params)>>,
                    IF all.rows = <<>>
                    THEN Json([success |-> FALSE, error |-> "Not Found"], 404)
                    ELSE Json([success |-> TRUE,
                               result |-> hydrateRow(all.rows[1])], 200),
                    d)
        ELSE IF first.err # ""
        THEN Result(<<Stmt(query, params), Stmt(countQuery, countParams)>>,
                    Json([success |-> FALSE, error |-> first.err], 500), d)
        ELSE Result(<<Stmt(query, params), Stmt(countQuery, countParams)>>,
                    Json([success |-> TRUE,
                          results |-> [i \in 1..Len(all.rows) |->
                                          hydrateRow(all.rows[i])],
                          pagination |->
                            [total_items  |-> JNum(total),
                             total_pages  |-> IF GtZero(limit)
                                              THEN JNum(CeilDiv(total, limit.n))
                                              ELSE JNum(1),
                             current_page |-> page,
                             limit        |-> IF Truthy(limit) THEN limit
                                              ELSE JNum(total)]], 200),
                    d)

handlePost(d, tableName, data) ==
    LET table   == sanitizeKeyword(tableName)
        keys    == [i \in 1..Len(data.o) |-> data.o[i].k]
        columns == [i \in 1..Len(keys) |-> sanitizeIdentifier(keys[i])]
        placeholders == Join([i \in 1..Len(columns) |-> <<Lit("?")>>], ", ")
        params  == [i \in 1..Len(columns) |->
                       toStoragePost(GetKey(data.o, columns[i]))]
        query   == <<Lit("INSERT INTO ")>> \o table \o <<Lit(" (")>>
                   \o Join([i \in 1..Len(columns) |-> <<Ident(columns[i])>>], ", ")
                   \o <<Lit(") VALUES (")>> \o placeholders \o <<Lit(")")>>
        run     == DbInsert(d, TableOf(table), columns, params)
        slug    == GetKey(data.o, S_slug)
    IN  IF data.t = "badjson"
        THEN Result(<<>>, Json([success |-> FALSE,
                                error |-> "Unexpected token in JSON"], 500), d)
        ELSE IF InvalidData(data)
        THEN Result(<<>>, Json([success |-> FALSE,
                                error |-> "Invalid data format"], 400), d)
        ELSE IF run.res.err = ""
        THEN Result(<<Stmt(query, params)>>,
                    Json([success |-> TRUE,
                          message |-> tableName \o <<" created successfully">>,
                          id |-> IF Truthy(slug) THEN slug
                                 ELSE JNum(run.res.last_row_id)], 201),
                    run.db)
        ELSE IF IsUniqueError(run.res.err)
        THEN Result(<<Stmt(query, params)>>,
                    Json([success |-> FALSE, error |-> "Este Slug ja esta em uso."],
                         409), d)
        ELSE Result(<<Stmt(query, params)>>,
                    Json([success |-> FALSE, error |-> run.res.err], 500), d)

\* c.req.json() is awaited outside handleUpdate's try: a body that is not
\* JSON makes handleRest reject, and no response of the handler is returned
Unhandled(d) == Result(<<>>, Json([unhandled |-> "SyntaxError"], 500), d)

handleUpdate(d, tableName, id, data) ==
    LET table   == sanitizeKeyword(tableName)
        keys    == [i \in 1..Len(data.o) |-> data.o[i].k]
        columns == [i \in 1..Len(keys) |-> sanitizeIdentifier(keys[i])]
        setColumns == Join([i \in 1..Len(columns) |-> EqualsParam(columns[i])], ", ")
        params  == [i \in 1..Len(columns) |->
                       toStorageUpdate(GetKey(data.o, columns[i]))]
        idColumn   == idColumnOf(tableName)
        finalQuery == <<Lit("UPDATE ")>> \o table \o <<Lit(" SET ")>> \o setColumns
                      \o <<Lit(" WHERE "), Ident(idColumn), Lit(" = ?")>>
        run     == DbUpdate(d, TableOf(table), columns, idColumn,
                            Append(params, id))
    IN  IF data.t = "badjson" THEN Unhandled(d)
        ELSE IF InvalidData(data)
        THEN Result(<<>>, Json([error |-> "Invalid data format"], 400), d)
        ELSE IF run.res.err = ""
        THEN Result(<<Stmt(finalQuery, Append(params, id))>>,
                    Json([success |-> TRUE,
                          message |-> "Resource updated successfully",
                          data |-> data], 200),
                    run.db)
        ELSE Result(<<Stmt(finalQuery, Append(params, id))>>,
                    Json([success |-> FALSE, error |-> run.res.err], 500), d)

handleDelete(d, tableName, id) ==
    LET table    == sanitizeKeyword(tableName)
        idColumn == idColumnOf(tableName)
        query    == <<Lit("DELETE FROM ")>> \o table
                    \o <<Lit(" WHERE "), Ident(idColumn), Lit(" = ?")>>
        run      == DbDelete(d, TableOf(table), idColumn, <<id>>)
    IN  IF run.res.err # ""
        THEN Result(<<Stmt(query, <<id>>)>>,
                    Json([success |-> FALSE, error |-> run.res.err], 500), d)
        ELSE IF run.res.changes = 0
        THEN Result(<<Stmt(query, <<id>>)>>,
                    Json([error |-> "Record not found"], 404), run.db)
        ELSE Result(<<Stmt(query, <<id>>)>>,
                    Json([success |-> TRUE,
                          message |-> "Resource deleted successfully"], 200),
                    run.db)

\* handleRest's early returns, before a handler is called
InvalidPath ==
    Json([error |-> "Invalid path. Expected format: /rest/{tableName}/{id?}"], 400)
IdRequiredForUpdates  == Json([error |-> "ID is required for updates"], 400)
IdRequiredForDeletion == Json([error |-> "ID is required for deletion"], 400)
MethodNotAllowed      == Json([error |-> "Method not allowed"], 405)

\* handleRest: pathParts = url.pathname.split("/").filter(Boolean);
\* tableName = pathParts[1], id = pathParts[2] (counted from 0)
tableNameOf(pathParts) == pathParts[2]
idOf(pathParts) == IF Len(pathParts) >= 3 THEN JStr(pathParts[3]) ELSE JUndef

-----------------------------------------------------------------------------
(* Requests *)

\* most keys of a request's JSON body
MaxKeys == 2

S_rest     == <<"r","e","s","t">>
S_quiz_zes == <<"q","u","i","z","-","z","e","s">>
S_a_dash   == <<"a","-">>
S_k        == <<"k">>
S_jsonA    == <<"[","\"","a","\"","]">>

TableNames == {S_items, S_quizzes, S_quiz_zes}
PathIds    == {S_k}
Methods    == {"GET", "POST", "PUT", "PATCH", "DELETE", "OPTIONS"}

TablePaths == {<<S_rest, t>> : t \in TableNames}
RowPaths   == {<<S_rest, t, i>> : t \in TableNames, i \in PathIds}

QueryEntries ==
    { Pair(S_limit, <<"0">>), Pair(S_limit, <<"-","1">>), Pair(S_limit, <<"2">>),
      Pair(S_page, <<"0">>), Pair(S_page, <<"2">>), Pair(S_page, <<"x">>),
      Pair(S_sort_by, S_a), Pair(S_sort_by, <<";">>),
      Pair(S_order, <<"d","e","s","c">>),
      Pair(S_a_dash, S_jsonA) }

Queries == UNION {[1..n -> QueryEntries] : n \in 0..MaxQuery}

PayloadEntries ==
    { Pair(S_id, JStr(S_k)), Pair(S_slug, JStr(S_k)),
      Pair(S_a, JBool(TRUE)), Pair(S_a, JArr(<<JStr(S_a)>>)),
      Pair(S_a_dash, JStr(S_k)) }

\* JSON.parse gives an object one entry per key
DistinctKeys(o) == \A i, j \in 1..Len(o) : i # j => o[i].k # o[j].k

Payloads ==
    {o \in UNION {[1..n -> PayloadEntries] : n \in 0..MaxKeys} : DistinctKeys(o)}

BadJson == [t |-> "badjson"]

Bodies == {JObj(o) : o \in Payloads}
          \cup {JArr(<<>>), JNull, JStr(S_a), BadJson}

Request(method, pathParts, query, body) ==
    [method |-> method, pathParts |-> pathParts, query |-> query, body |-> body]

NoRequest  == Request("-", <<>>, <<>>, JUndef)
NoResponse == Json([none |-> TRUE], 0)
EmptyDb    == [t \in Tables |-> <<>>]

-----------------------------------------------------------------------------
(* Inputs of the coercers *)

SampleStrs == { <<>>, <<"a">>, <<"[">>, <<"\"">>, <<"\\">>, <<"{","}">>,
                <<"[","1","]">> }

SampleKeys == { <<"a">>, <<"b","\"">> }

Leaves == {JNull, JBool(TRUE), JBool(FALSE)}
          \cup {JNum(n) : n \in (-1)..MaxNum}
          \cup {JStr(s) : s \in SampleStrs}

NestedSamples ==
    { JArr(<<>>), JArr(<<JNum(1)>>), JObj(<<>>),
      JObj(<<Pair(<<"a">>, JBool(TRUE))>>),
      JObj(<<Pair(<<"a">>, JArr(<<JStr(<<"[">>), JNum(0)>>))>>) }

Elems == Leaves \cup NestedSamples

ArrayValues == {JArr(a) : a \in UNION {[1..n -> Elems] : n \in 0..MaxArrLen}}

ObjectValues ==
    {JObj(<<>>)}
    \cup {JObj(<<Pair(k, v)>>) : k \in SampleKeys, v \in Elems}
    \cup {JObj(<<Pair(p[1], p[3]), Pair(p[2], p[4])>>) :
            p \in {q \in SampleKeys \X SampleKeys \X Elems \X Elems : q[1] # q[2]}}

WireValues == Leaves \cup ArrayValues \cup ObjectValues

-----------------------------------------------------------------------------
(* The coercers' round trip: a wire value is stored, then read back *)

CoerceInit ==
    /\ cv \in WireValues
    /\ cstored = JNull
    /\ cout = JNull
    /\ cstage = "wire"
    /\ db = EmptyDb /\ req = NoRequest /\ stmts = <<>> /\ resp = NoResponse
    /\ pc = "idle"

StorePost ==
    /\ cstage = "wire"
    /\ cstored' = toStoragePost(cv)
    /\ cstage' = "stored"
    /\ UNCHANGED <<cv, cout, restVars>>

StoreUpdate ==
    /\ cstage = "wire"
    /\ cstored' = toStorageUpdate(cv)
    /\ cstage' = "stored"
    /\ UNCHANGED <<cv, cout, restVars>>

Hydrate ==
    /\ cstage = "stored"
    /\ cout' = hydrateValue(cstored)
    /\ cstage' = "hydrated"
    /\ UNCHANGED <<cv, cstored, restVars>>

CoerceNext == StorePost \/ StoreUpdate \/ Hydrate

CoerceSpec == CoerceInit /\ [][CoerceNext]_vars

\* C8: a wire value that is an object, an array, a boolean or null comes back
\* from write-direction coercion followed by hydration equal to itself.
C8_RoundTrip ==
    (cstage = "hydrated" /\ cv.t \in {"obj", "arr", "bool", "null"})
        => (cout.t = cv.t /\ cout = cv)

\* a nested array was stored as JSON text and read back unchanged, its inner
\* 1 still a number
C8_Witness ==
    /\ cstage = "hydrated"
    /\ cv = JArr(<<JNum(1), JBool(TRUE)>>)
    /\ cstored = JStr(<<"[","1",",","t","r","u","e","]">>)
    /\ cout = cv

-----------------------------------------------------------------------------
(* The gateway: one request at a time is routed, answered, and forgotten *)

Init ==
    /\ db = EmptyDb
    /\ req = NoRequest
    /\ stmts = <<>>
    /\ resp = NoResponse
    /\ pc = "idle"
    /\ cv = JNull /\ cstored = JNull /\ cout = JNull /\ cstage = "wire"

\* request is answered with r (the tables hold at most MaxRows rows)
Respond(request, r) ==
    /\ TotalRows(r.db) <= MaxRows
    /\ req' = request
    /\ stmts' = r.stmts
    /\ resp' = r.resp
    /\ db' = r.db
    /\ pc' = "done"
    /\ UNCHANGED coerceVars

\* handleRest, pathParts.length < 2: whatever the method
BadPath ==
    /\ pc = "idle"
    /\ \E m \in Methods :
          Respond(Request(m, <<S_rest>>, <<>>, JUndef), Result(<<>>, InvalidPath, db))

\* handleRest, case "GET"
Get ==
    /\ pc = "idle"
    /\ \E p \in TablePaths \cup RowPaths, q \in Queries :
          Respond(Request("GET", p, q, JUndef),
                  handleGet(db, tableNameOf(p), idOf(p), q))

\* handleRest, case "POST"
Post ==
    /\ pc = "idle"
    /\ \E p \in TablePaths, b \in Bodies :
          Respond(Request("POST", p, <<>>, b), handlePost(db, tableNameOf(p), b))

\* handleRest, case "PUT" / "PATCH"
Update ==
    /\ pc = "idle"
    /\ \E m \in {"PUT", "PATCH"}, p \in TablePaths \cup RowPaths :
          \E b \in (IF Len(p) = 3 THEN Bodies ELSE {JObj(<<>>)}) :
              Respond(Request(m, p, <<>>, b),
                      IF ~Truthy(idOf(p))
                      THEN Result(<<>>, IdRequiredForUpdates, db)
                      ELSE handleUpdate(db, tableNameOf(p), idOf(p), b))

\* handleRest, case "DELETE"
Delete ==
    /\ pc = "idle"
    /\ \E p \in TablePaths \cup RowPaths :
          Respond(Request("DELETE", p, <<>>, JUndef),
                  IF ~Truthy(idOf(p))
                  THEN Result(<<>>, IdRequiredForDeletion, db)
                  ELSE handleDelete(db, tableNameOf(p), idOf(p)))

\* handleRest, default
NotAllowed ==
    /\ pc = "idle"
    /\ \E p \in TablePaths \cup RowPaths :
          Respond(Request("OPTIONS", p, <<>>, JUndef),
                  Result(<<>>, MethodNotAllowed, db))

\* the response has been returned: nothing of the request is kept
NextRequest ==
    /\ pc = "done"
    /\ pc' = "idle"
    /\ req' = NoRequest
    /\ stmts' = <<>>
    /\ resp' = NoResponse
    /\ UNCHANGED <<db, coerceVars>>

Next == BadPath \/ Get \/ Post \/ Update \/ Delete \/ NotAllowed \/ NextRequest

Spec == Init /\ [][Next]_vars

-----------------------------------------------------------------------------
(* What the claims speak of *)

ValEq(x, y) == x.t = y.t /\ x = y

Answered(method) == pc = "done" /\ req.method = method /\ Len(req.pathParts) >= 2
ReqTable == tableNameOf(req.pathParts)
ReqId    == idOf(req.pathParts)
HasId    == Len(req.pathParts) >= 3

\* the entries of the query string that are not reserved keys
ReqFilters == SelectSeq(req.query, LAMBDA e : e.k \notin ReservedKeys)

\* the literal parts of the handlers' template strings
TemplateLits ==
    { "SELECT * FROM ", "SELECT COUNT(*) as total FROM ", "INSERT INTO ",
      "UPDATE ", "DELETE FROM ", "<U+0060>", " WHERE ", " AND ", " = ?",
      " ORDER BY ", " ", "ASC", "DESC", " LIMIT ? OFFSET ?", " (", ", ",
      ") VALUES (", "?", ")", " SET " }

\* the place of the literal lit in a statement text, 0 without it
PlaceOf(text, lit) ==
    IF \E i \in 1..Len(text) : text[i] = Lit(lit)
    THEN CHOOSE i \in 1..Len(text) :
            text[i] = Lit(lit) /\ \A j \in 1..(i - 1) : text[j] # Lit(lit)
    ELSE 0

\* the WHERE clause of a statement text: from " WHERE " up to " ORDER BY "
\* or the end
WhereOf(text) ==
    LET w == PlaceOf(text, " WHERE ")
        o == PlaceOf(text, " ORDER BY ")
    IN  IF w = 0 THEN <<>>
        ELSE SubSeq(text, w, IF o = 0 THEN Len(text) ELSE o - 1)

\* the identifiers of a sequence of text parts, in order
IdentsOf(text) ==
    LET ids == SelectSeq(text, LAMBDA p : p.kind = "ident")
    IN  [i \in 1..Len(ids) |-> ids[i].s]

\* the table a statement text names
StmtTable(text) == IdentsOf(text)[1]

\* C1: every identifier in the text of every statement sent to storage is
\* made of characters of [A-Za-z0-9_] only, and every other part of the text
\* is a literal of the handlers' templates.
C1_IdentifiersSafe ==
    \A i \in 1..Len(stmts) : \A j \in 1..Len(stmts[i].text) :
        LET p == stmts[i].text[j] IN
        IF p.kind = "ident"
        THEN \A k \in 1..Len(p.s) : p.s[k] \in SafeChars
        ELSE p.s[1] \in TemplateLits

\* a GET on table name quiz-zes with the filter key a- and sort_by=a was sent
\* to storage as statements on quizzes with the condition a = ?
C1_Witness ==
    /\ Answered("GET")
    /\ ReqTable = S_quiz_zes
    /\ ~HasId
    /\ Len(ReqFilters) = 1 /\ ReqFilters[1].k = S_a_dash
    /\ Len(stmts) = 2
    /\ IdentsOf(stmts[1].text) = <<S_quizzes, S_a, S_a>>
    /\ IdentsOf(stmts[2].text) = <<S_quizzes, S_a>>
    /\ resp.status = 200

\* C2: a GET with an id and no filter, for a table holding a row whose
\* identifying column equals the id, answers 200 with that row hydrated,
\* whatever limit, page, sort_by and order are.  (Stated for a table addressed
\* by its own name and a sort_by, when given, that names one of its columns.)
C2_IdLookupIgnoresPaging ==
    (/\ Answered("GET") /\ HasId /\ ReqFilters = <<>>
     /\ ReqTable \in Tables
     /\ HasParam(req.query, S_sort_by)
        => IsColumn(ReqTable, sanitizeIdentifier(GetParam(req.query, S_sort_by))))
    => \A i \in 1..Len(db[ReqTable]) :
          ValEq(GetKey(db[ReqTable][i], KeyColumn(ReqTable)), ReqId)
          => /\ resp.status = 200
             /\ resp.body.success
             /\ resp.body.result = hydrateRow(db[ReqTable][i])

\* C3: the INSERT of a POST with a plain-object body lists the sanitized
\* payload keys in payload order, and binds at each place the write-direction
\* coercion of that key's value.
C3_InsertBindsEachValue ==
    (Answered("POST") /\ req.body.t = "obj" /\ stmts # <<>>)
    => LET o == req.body.o IN
       /\ Len(stmts[1].params) = Len(o)
       /\ IdentsOf(stmts[1].text)
            = <<sanitizeIdentifier(ReqTable)>>
              \o [i \in 1..Len(o) |-> sanitizeIdentifier(o[i].k)]
       /\ \A i \in 1..Len(o) : ValEq(stmts[1].params[i], toStoragePost(o[i].v))

\* C4: every error response carries success = false.
C4_ErrorsCarrySuccessFalse ==
    (pc = "done" /\ resp.status >= 400)
    => ("success" \in DOMAIN resp.body /\ resp.body.success = FALSE)

\* C5: the id of a 201 response is the payload's value of the table's
\* identifying column when the payload has that column, and the engine's
\* last row id when it has not.
C5_CreatedIdIsIdentifyingColumn ==
    (Answered("POST") /\ resp.status = 201)
    => LET col == idColumnOf(ReqTable)
           tbl == sanitizeIdentifier(ReqTable)
       IN  IF HasKey(req.body.o, col)
           THEN ValEq(resp.body.id, GetKey(req.body.o, col))
           ELSE ValEq(resp.body.id, JNum(Len(db[tbl])))

\* the limit parameter is absent, zero or negative
LimitOff ==
    \/ ~HasParam(req.query, S_limit)
    \/ LET l == parseInt(GetParam(req.query, S_limit)) IN IsNum(l) /\ l.n <= 0

\* the limit parameter is a positive number
LimitOn ==
    /\ HasParam(req.query, S_limit)
    /\ GtZero(parseInt(GetParam(req.query, S_limit)))

\* C6: a collection GET whose limit is absent, zero or negative sends a row
\* statement without LIMIT/OFFSET and reports total_pages = 1 and limit =
\* total_items.
C6_UnpaginatedEchoesTotal ==
    (Answered("GET") /\ ~HasId /\ LimitOff)
    => /\ PlaceOf(stmts[1].text, " LIMIT ? OFFSET ?") = 0
       /\ resp.status = 200
          => /\ resp.body.pagination.total_pages = JNum(1)
             /\ ValEq(resp.body.pagination.limit,
                      resp.body.pagination.total_items)

\* the page a supplied page parameter stands for: at least 1, and 1 when it
\* does not parse
ClampedPage ==
    LET p == parseInt(GetParam(req.query, S_page))
    IN  IF IsNum(p) /\ p.n >= 1 THEN p.n ELSE 1

\* C7: a collection GET with limit > 0 and a page parameter binds
\* OFFSET = (page - 1) * limit for the clamped page, and reports
\* current_page = page and total_pages = ceil(total_items / limit).
C7_PageClampedAndOffset ==
    (Answered("GET") /\ ~HasId /\ LimitOn /\ HasParam(req.query, S_page))
    => LET limit  == parseInt(GetParam(req.query, S_limit)).n
           params == stmts[1].params
       IN  /\ ValEq(params[Len(params)], JNum((ClampedPage - 1) * limit))
           /\ ValEq(params[Len(params) - 1], JNum(limit))
           /\ resp.status = 200
              => /\ ValEq(resp.body.pagination.current_page, JNum(ClampedPage))
                 /\ resp.body.pagination.total_pages
                      = JNum(CeilDiv(resp.body.pagination.total_items.n, limit))

\* C9: the COUNT statement of a collection GET has the row statement's WHERE
\* clause; it binds the values of the query string's non-reserved entries in
\* order, which are the row statement's parameters without the trailing limit
\* and offset when limit > 0; it binds as many values as it has placeholders;
\* its conditions are the sanitized non-reserved keys.
C9_CountBindsTheFilters ==
    (Answered("GET") /\ ~HasId /\ Len(stmts) = 2)
    => LET row   == stmts[1]
           count == stmts[2]
           vals  == [i \in 1..Len(ReqFilters) |-> JStr(ReqFilters[i].v)]
       IN  /\ WhereOf(count.text) = WhereOf(row.text)
           /\ count.params = vals
           /\ row.params = IF LimitOn
                           THEN vals \o SubSeq(row.params, Len(row.params) - 1,
                                               Len(row.params))
                           ELSE vals
           /\ Len(count.params) = Placeholders(count.text)
           /\ IdentsOf(WhereOf(count.text))
                = [i \in 1..Len(ReqFilters) |-> sanitizeIdentifier(ReqFilters[i].k)]

\* a paged collection GET with one filter: the row statement bound the filter
\* value, the limit and the offset, the COUNT statement the filter value alone
C9_Witness ==
    /\ Answered("GET") /\ ~HasId /\ LimitOn
    /\ Len(ReqFilters) = 1
    /\ Len(stmts) = 2
    /\ Len(stmts[1].params) = 3
    /\ stmts[2].params = <<JStr(S_jsonA)>>
    /\ resp.status = 200
    /\ resp.body.pagination.total_items = JNum(1)

\* C10: the identifying column of an id-scoped statement is slug when the
\* table in the statement text is quizzes, and id otherwise.
C10_IdColumnFollowsStatementTable ==
    (/\ pc = "done" /\ HasId /\ stmts # <<>>
     /\ req.method \in {"GET", "PUT", "PATCH", "DELETE"})
    => LET text == stmts[1].text
           w    == PlaceOf(text, " WHERE ")
       IN  /\ w # 0
           /\ text[w + 1] = Ident(IF StmtTable(text) = S_quizzes
                                  THEN S_slug ELSE S_id)

====
